---- MODULE Spec2Model ----
(***************************************************************************)
(* CornCare consultation chat: message store, read cursors, the chat API   *)
(* of frontend/src/lib/auth-api.ts and the two chat panels                 *)
(* (UserChatPanel.tsx, ExpertChatPanel.tsx).                               *)
(*                                                                         *)
(* The backend (message store, read-cursor tracker, chat session service)  *)
(* is not part of the sources at hand; it is modelled from sections 3-5 of *)
(* the specification.  Everything on the browser side is modelled from the *)
(* TypeScript sources.                                                     *)
(*                                                                         *)
(* A request is handled by the backend at one instant between the call and *)
(* its return.  The action of a call is placed at that instant (the client *)
(* does nothing in between that the request could observe); what stays in  *)
(* flight is the response.  markRead alone takes two backend steps: it     *)
(* reads the latest message id, then hands it to the tracker.              *)
(***************************************************************************)
EXTENDS Integers, Sequences, FiniteSets, TLC

(* ------------------------------ bounds --------------------------------- *)

\* Messages the store may hold in total (all requests together).
MaxMsgs == 2

\* API calls that may be in flight at the same time (all tabs together).
MaxInFlight == 2

\* The largest badge or baseline a page counts up to.
MaxCount == 2

\* The longest compose text a panel's input holds.
MaxText == 2

(* ---------------------------- vocabulary ------------------------------- *)

Requests == {"R1", "R2"}

Roles == {"user", "expert"}

Other(role) == IF role = "user" THEN "expert" ELSE "user"

\* Browser tabs: one farmer-side page (ExpertConsultation) and two tabs of
\* the expert dashboard, the latter two in the same browser.
Tabs == {"f1", "e1", "e2"}

PageOf(t) == IF t = "f1" THEN "farmer" ELSE "expert"

\* The role a page acts for: ExpertConsultation is the farmer's page,
\* ExpertDashboard the expert's.
PageRole(page) == IF page = "farmer" THEN "user" ELSE "expert"

Browsers == {"bf", "be"}

BrowserOf(t) == IF t = "f1" THEN "bf" ELSE "be"

\* The tabs in which a chat panel gets opened; the second dashboard tab only
\* shows the request list with its badges.
PanelTabs == {"f1", "e1"}

\* The keys of localStorage that carry credentials.
Credentials == {"authToken", "expert_token"}

\* The credential without which the page of that browser is not rendered:
\* /expert-consultation sits under ProtectedRoute, /expert-dashboard under
\* ExpertProtectedRoute.
GuardOf(b) == IF b = "bf" THEN "authToken" ELSE "expert_token"

None == "none"

\* The kinds of API call a tab can have under way, at most one of a kind.
Ops == {"session", "initlist", "list", "send", "mark", "unread", "sync", "fallback",
        "openmark", "readmark", "closemark", "post", "get"}

PanelOps == {"session", "initlist", "list", "send"}

Max(a, b) == IF a >= b THEN a ELSE b

IsPrefix(s, t) == Len(s) <= Len(t) /\ \A i \in 1..Len(s) : s[i] = t[i]

Ids(list) == {list[i].id : i \in DOMAIN list}

(* ------------------------------ state ---------------------------------- *)

VARIABLES
  msgs,       \* store: request -> sequence of ChatMessage, in creation order
  cursor,     \* tracker: request -> role -> id of the last message read (0: nothing read)
  storage,    \* browser -> set of credentials present in localStorage
  calls,      \* tab -> kind of call -> the call under way (or idle)
  panel,      \* tab -> request whose chat panel is mounted, or None
  messages,   \* tab -> the panel's local message list (useState messages)
  sending,    \* tab -> the panel's sending flag
  notified,   \* tab -> what the panel's last poll tick did: "notify" (it called
              \* onNewMessage), "quiet" (it did not), "idle" (no tick yet)
  maxApplied, \* history: request -> role -> the largest marker the tracker was given
  lastApplied,\* history: request -> role -> the marker the tracker was given last
  markState,  \* history: the markChatRead call issued last and what followed it
  acked,      \* history: ids of the messages whose send has returned to its panel
  before,     \* history: pairs <<a, b>> of one request: the send of a had returned
              \* when b was sent
  unreadCounts,      \* tab -> request -> the page's displayed unread badge
  lastMessageCounts, \* tab -> request -> the page's client-side baseline
  openChatId,        \* tab -> the request the page holds as open, or None
  interval,          \* tab -> the request the panel's 3 s interval polls, or None
  mounted,           \* tab -> the page is rendered
  pollInterval,      \* tab -> the page's 5 s interval: "on" or None
  newMessage,        \* tab -> the panel's compose text (useState newMessage)
  file               \* tab -> the panel has an attachment selected (useState file)

\* The state of the page that renders the chat panel.
pageVars == <<unreadCounts, lastMessageCounts, openChatId>>

\* The compose state of the chat panel.
composeVars == <<newMessage, file>>

vars == <<msgs, cursor, storage, calls, panel, messages, sending, notified,
          maxApplied, lastApplied, markState, acked, before,
          unreadCounts, lastMessageCounts, openChatId,
          interval, mounted, pollInterval,
                 newMessage, file>>

(* ------------------- backend (modelled from the spec) ------------------ *)

RECURSIVE SumLen(_, _)
SumLen(store, S) ==
  IF S = {} THEN 0
  ELSE LET r == CHOOSE x \in S : TRUE
       IN  Len(store[r]) + SumLen(store, S \ {r})

TotalMsgs(store) == SumLen(store, Requests)

\* Ids are assigned by the store, in creation order.
NextId(store) == TotalMsgs(store) + 1

\* The record 4.1 append creates.
NewMessage(store, r, role) == [id |-> NextId(store), request_id |-> r, sender |-> role]

\* An append that puts the new record first.
StoreAppend_front(store, r, role) ==
  [store EXCEPT ![r] = <<NewMessage(store, r, role)>> \o @]

\* 4.1 append: one new immutable record at the end of the request's list.
StoreAppend(store, r, role) ==
  [store EXCEPT ![r] = Append(@, NewMessage(store, r, role))]

\* 4.1 listByRequest: the request's full list in creation order.
ListByRequest(store, r) == store[r]

\* The id of the request's first message taken for its latest.
LatestId_first(store, r) == IF store[r] = <<>> THEN 0 ELSE store[r][1].id

\* The id of the most recent message of the request (0: no message).
LatestId(store, r) == IF store[r] = <<>> THEN 0 ELSE store[r][Len(store[r])].id

\* A tracker that stores whatever marker it is given.
TrackerMarkRead_overwrite(old, at) == at

\* 4.2 markRead: monotonic compare-and-set.
TrackerMarkRead(old, at) == Max(old, at)

\* A markRead whose write is lost.
CursorAfterMark_lost(cur, r, role, at) == cur

\* A markRead that advances the cursors of both roles.
CursorAfterMark_bothRoles(cur, r, role, at) ==
  [cur EXCEPT ![r] = [x \in Roles |-> TrackerMarkRead(@[x], at)]]

\* The cursor map after 4.2 markRead for (r, role) with marker at.
CursorAfterMark(cur, r, role, at) ==
  [cur EXCEPT ![r][role] = TrackerMarkRead(@, at)]

\* 3 UnreadCount: messages of the other role strictly after the role's cursor.
UnreadCount(store, cur, r, role) ==
  Cardinality({i \in DOMAIN store[r] :
                 store[r][i].sender # role /\ store[r][i].id > cur[r][role]})

\* Auth collaborator: the role a bearer credential resolves to.
RoleOfCredential(c) ==
  IF c = "authToken" THEN "user"
  ELSE IF c = "expert_token" THEN "expert"
  ELSE None

(* ---------------------- auth-api.ts (the chat API) --------------------- *)

\* api.interceptors.request: the user's token is added unless the caller
\* already set an Authorization header.
RequestInterceptor(store, header) ==
  IF "authToken" \in store /\ header = None THEN "authToken" ELSE header

\* const expertToken = localStorage.getItem('expert_token');
\* headers: expertToken ? { Authorization: `Bearer ${expertToken}` } : undefined
ExpertTokenHeader(store) == IF "expert_token" \in store THEN "expert_token" ELSE None

\* Each API function, as the credential its request carries.
getChatSession(store) == RequestInterceptor(store, None)

\* sendChatMessage with the header logic of the expert-side functions.
sendChatMessage_expertHeader(store) == RequestInterceptor(store, ExpertTokenHeader(store))

sendChatMessage(store) == RequestInterceptor(store, None)

getChatMessages(store) == RequestInterceptor(store, None)

getExpertChatSession(store) == RequestInterceptor(store, ExpertTokenHeader(store))

sendExpertChatMessage(store) == RequestInterceptor(store, ExpertTokenHeader(store))

getExpertChatMessages(store) == RequestInterceptor(store, ExpertTokenHeader(store))

markChatRead(store) == RequestInterceptor(store, ExpertTokenHeader(store))

getUnreadCount(store) == RequestInterceptor(store, ExpertTokenHeader(store))

\* The fallback value returned for a number as well.
getUnreadCountResult_zero(unread) == 0

\* return typeof res.data?.unread === 'number' ? res.data.unread : 0;
getUnreadCountResult(unread) == IF unread \in Int THEN unread ELSE 0

\* The function a page of that kind uses for a kind of call: UserChatPanel
\* imports the user-side functions, ExpertChatPanel the expert-side ones;
\* both pages use markChatRead and getUnreadCount.
ApiCredential(page, op, store) ==
  CASE op = "session"  -> IF page = "farmer" THEN getChatSession(store)
                          ELSE getExpertChatSession(store)
    [] op = "initlist" -> IF page = "farmer" THEN getChatMessages(store)
                          ELSE getExpertChatMessages(store)
    [] op = "list"     -> IF page = "farmer" THEN getChatMessages(store)
                          ELSE getExpertChatMessages(store)
    [] op = "send"     -> IF page = "farmer" THEN sendChatMessage(store)
                          ELSE sendExpertChatMessage(store)
    [] op = "mark"     -> markChatRead(store)
    [] op = "unread"   -> getUnreadCount(store)
    [] op = "sync"     -> IF page = "farmer" THEN getChatMessages(store)
                          ELSE getExpertChatMessages(store)
    [] op = "fallback" -> IF page = "farmer" THEN getChatMessages(store)
                          ELSE getExpertChatMessages(store)
    [] op = "openmark"  -> markChatRead(store)
    [] op = "readmark"  -> IF page = "farmer" THEN getChatMessages(store)
                           ELSE markChatRead(store)
    [] op = "closemark" -> markChatRead(store)
    [] op = "post" -> IF page = "farmer" THEN sendChatMessage(store)
                      ELSE sendExpertChatMessage(store)
    [] op = "get" -> IF page = "farmer" THEN getChatSession(store)
                     ELSE getExpertChatSession(store)

\* The role the backend sees when tab t makes a call of that kind now.
ActingRole(t, op) ==
  RoleOfCredential(ApiCredential(PageOf(t), op, storage[BrowserOf(t)]))

\* What getUnreadCount(r) returns to tab t when the backend answers it now.
UnreadReturned(t, r) ==
  getUnreadCountResult(UnreadCount(msgs, cursor, r, ActingRole(t, "unread")))

(* ------------------------------ helpers -------------------------------- *)

Idle == [stage |-> "idle", req |-> None, role |-> None, ok |-> TRUE,
         data |-> <<>>, n |-> 0, live |-> TRUE,
         message |-> <<>>, upload |-> FALSE, err |-> None, caller |-> None]

\* A settled call whose result has not reached the awaiting code yet.
Settled(r, role, ok, data) ==
  [stage |-> "resp", req |-> r, role |-> role, ok |-> ok,
   data |-> data, n |-> 0, live |-> TRUE,
   message |-> <<>>, upload |-> FALSE, err |-> None, caller |-> None]

InFlight ==
  Cardinality({tk \in Tabs \X Ops : calls[tk[1]][tk[2]].stage # "idle"})

\* The count without the filter: every message.
CounterpartCount_all(list, role) == Len(list)

\* latest.filter(m => m.sender === <counterpart>).length
CounterpartCount(list, role) ==
  Cardinality({i \in DOMAIN list : list[i].sender = Other(role)})

\* The poll tick's test: more counterpart messages than before, and the
\* onNewMessage callback is set (both pages pass it).
PollNotifies(latest, prev, role) ==
  CounterpartCount(latest, role) > CounterpartCount(prev, role)

\* The polled list put in front of what the panel showed.
PollResult_merge(latest, prev) == latest \o prev

\* The list the poll tick leaves in the panel: return latest;
PollResult(latest, prev) == latest

\* The list handleSend leaves in the panel: [...prev, msg]
SendResult(prev, msg) == Append(prev, msg)

\* The characters of a compose text: a blank and one that is not.
Chars == {" ", "x"}

\* The values of the text input.
Texts == UNION {[1..n -> Chars] : n \in 0..MaxText}

RECURSIVE TrimStart(_)
TrimStart(text) ==
  IF text # <<>> /\ Head(text) = " " THEN TrimStart(Tail(text)) ELSE text

RECURSIVE TrimEnd(_)
TrimEnd(text) ==
  IF text # <<>> /\ text[Len(text)] = " "
  THEN TrimEnd(SubSeq(text, 1, Len(text) - 1))
  ELSE text

\* String.prototype.trim(): the blanks at both ends are removed.
Trim(text) == TrimEnd(TrimStart(text))

\* The guard without trim(): any text that is not empty is sent.
CanSend_untrimmed(text, attached, busy) ==
  ~((~(text # <<>>) /\ ~attached) \/ busy)

\* The guard without its test of sending.
CanSend_unguarded(text, attached, busy) ==
  ~(~(text # <<>> /\ Trim(text) # <<>>) /\ ~attached)

\* if ((!(newMessage && newMessage.trim()) && !file) || sending) return;
CanSend(text, attached, busy) ==
  ~((~(text # <<>> /\ Trim(text) # <<>>) /\ ~attached) \/ busy)

\* The compose text is cleared whatever the send's outcome.
ComposeAfterSend_cleared(text, ok) == <<>>

\* setNewMessage('') is inside the try block, after the await: the text
\* is cleared by a send that succeeded and kept by one that failed.
ComposeAfterSend(text, ok) == IF ok THEN <<>> ELSE text

\* setFile(null), inside the try block as well.
FileAfterSend(attached, ok) == IF ok THEN FALSE ELSE attached

NoMark == [tab |-> None, phase |-> "none", req |-> None, role |-> None, since |-> 0]

TypeOK ==
  /\ TotalMsgs(msgs) <= MaxMsgs
  /\ \A r \in Requests : \A role \in Roles : cursor[r][role] \in 0..TotalMsgs(msgs)
  /\ \A b \in Browsers : GuardOf(b) \in storage[b] /\ storage[b] \subseteq Credentials
  /\ \A t \in Tabs : panel[t] \in Requests \cup {None}
  /\ InFlight <= MaxInFlight

(* ------------------------------- Init ---------------------------------- *)

\* Fresh conversations, nothing in flight, no panel mounted.  A page is
\* rendered only with its own credential in localStorage; the other
\* credential comes and goes with login and logout in the same browser.
InitStore ==
  /\ msgs = [r \in Requests |-> <<>>]
  /\ cursor = [r \in Requests |-> [role \in Roles |-> 0]]
  /\ storage = [b \in Browsers |-> {GuardOf(b)}]
  /\ calls = [t \in Tabs |-> [op \in Ops |-> Idle]]
  /\ panel = [t \in Tabs |-> None]
  /\ messages = [t \in Tabs |-> <<>>]
  /\ sending = [t \in Tabs |-> FALSE]
  /\ notified = [t \in Tabs |-> "idle"]
  /\ maxApplied = [r \in Requests |-> [role \in Roles |-> 0]]
  /\ lastApplied = [r \in Requests |-> [role \in Roles |-> 0]]
  /\ markState = NoMark
  /\ acked = {}
  /\ before = {}
  /\ unreadCounts = [t \in Tabs |-> [r \in Requests |-> 0]]
  /\ lastMessageCounts = [t \in Tabs |-> [r \in Requests |-> 0]]
  /\ openChatId = [t \in Tabs |-> None]
  /\ interval = [t \in Tabs |-> None]
  /\ newMessage = [t \in Tabs |-> <<>>]
  /\ file = [t \in Tabs |-> FALSE]

\* Every page is rendered, with its 5 s interval registered.
Init ==
  /\ InitStore
  /\ mounted = [t \in Tabs |-> TRUE]
  /\ pollInterval = [t \in Tabs |-> "on"]

(* --------------------------- localStorage ------------------------------ *)

\* ExpertAuthProvider.login in the farmer's browser: expert_token is stored.
login(b) ==
  /\ b = "bf"
  /\ "expert_token" \notin storage[b]
  /\ storage' = [storage EXCEPT ![b] = @ \cup {"expert_token"}]
  /\ UNCHANGED <<msgs, cursor, calls, panel, messages, sending, notified,
                 maxApplied, lastApplied, markState, acked, before, pageVars,
                 interval, mounted, pollInterval,
                 newMessage, file>>

\* ExpertAuthProvider.logout in the farmer's browser.
logout(b) ==
  /\ b = "bf"
  /\ "expert_token" \in storage[b]
  /\ storage' = [storage EXCEPT ![b] = @ \ {"expert_token"}]
  /\ UNCHANGED <<msgs, cursor, calls, panel, messages, sending, notified,
                 maxApplied, lastApplied, markState, acked, before, pageVars,
                 interval, mounted, pollInterval,
                 newMessage, file>>

\* setAuthToken (farmer login) in the expert's browser.
setAuthToken(b) ==
  /\ b = "be"
  /\ "authToken" \notin storage[b]
  /\ storage' = [storage EXCEPT ![b] = @ \cup {"authToken"}]
  /\ UNCHANGED <<msgs, cursor, calls, panel, messages, sending, notified,
                 maxApplied, lastApplied, markState, acked, before, pageVars,
                 interval, mounted, pollInterval,
                 newMessage, file>>

\* clearAuthToken (farmer logout) in the expert's browser.
clearAuthToken(b) ==
  /\ b = "be"
  /\ "authToken" \in storage[b]
  /\ storage' = [storage EXCEPT ![b] = @ \ {"authToken"}]
  /\ UNCHANGED <<msgs, cursor, calls, panel, messages, sending, notified,
                 maxApplied, lastApplied, markState, acked, before, pageVars,
                 interval, mounted, pollInterval,
                 newMessage, file>>

(* ----------------- the chat API, called by a page ---------------------- *)

FrameApi == UNCHANGED <<storage, panel, messages, sending, notified, acked, before,
                        pageVars, interval, mounted, pollInterval,
                 newMessage, file>>

\* The markChatRead call issued last sees one more counterpart message.
SinceAfterSend(ms, r, role) ==
  IF ms.phase # "none" /\ ms.req = r /\ ms.role = Other(role)
  THEN [ms EXCEPT !.since = @ + 1]
  ELSE ms

\* The request ids a caller can name: the two conversations and one id
\* that no ConsultationRequest has.
RequestIds == Requests \cup {"R_999"}

\* The accounts the auth collaborator resolves a caller to.
Accounts == {"farmer", "expert", "stranger"}

\* 6 the ConsultationRequest directory: the request's farmer and its
\* assigned expert.
Parties(r) == {"farmer", "expert"}

\* 4.3 getSession that answers an unknown request like an empty
\* conversation.
SessionError_found(r, role, who, ok) ==
  IF r \in Requests /\ (role \notin Roles \/ who \notin Parties(r)) THEN "ForbiddenError"
  ELSE IF ~ok THEN "TransientBackendError"
  ELSE None

\* 4.3 getSession fails with NotFoundError if there is no such request and
\* with ForbiddenError if the caller is not a party to it; None if the
\* session is returned.  ok is FALSE when the backend is unavailable.
SessionError(r, role, who, ok) ==
  IF r \notin Requests THEN "NotFoundError"
  ELSE IF role \notin Roles \/ who \notin Parties(r) THEN "ForbiddenError"
  ELSE IF ~ok THEN "TransientBackendError"
  ELSE None

\* The response to getChatSession / getExpertChatSession(requestId) of the
\* account who, handled now.
SessionResponse(t, r, who, ok) ==
  LET role == ActingRole(t, "get")
      err == SessionError(r, role, who, ok) IN
  [Settled(r, role, err = None,
           IF err = None THEN ListByRequest(msgs, r) ELSE <<>>)
     EXCEPT !.err = err, !.caller = who]

\* getChatSession / getExpertChatSession(requestId) called from tab t,
\* logged in as the account who, and handled; the caller awaits the
\* response.  A session is a computed view: nothing is written.
GetSession(t, r, who) ==
  /\ calls[t]["get"].stage = "idle"
  /\ InFlight < MaxInFlight
  /\ \E ok \in BOOLEAN :
       calls' = [calls EXCEPT ![t]["get"] = SessionResponse(t, r, who, ok)]
  /\ UNCHANGED <<msgs, markState, cursor, maxApplied, lastApplied>>
  /\ FrameApi

\* The caller's await returns: response.data, or the rejection.
ReturnGetSession(t) ==
  /\ calls[t]["get"].stage = "resp"
  /\ calls' = [calls EXCEPT ![t]["get"] = Idle]
  /\ UNCHANGED <<msgs, markState, cursor, maxApplied, lastApplied>>
  /\ FrameApi

\* 4.1 append without the shape check: any content is stored.
ValidContent_any(message, upload) == TRUE

\* 4.1 append fails with ValidationError if both text and attachment are
\* empty.
ValidContent(message, upload) == message # <<>> \/ upload

\* 7 the error a send of this content ends with, None if it is stored.
\* ok is FALSE when the backend is unavailable.
SendError(store, role, message, upload, ok) ==
  IF role \notin Roles THEN "ForbiddenError"
  ELSE IF ~ValidContent(message, upload) THEN "ValidationError"
  ELSE IF ~ok \/ TotalMsgs(store) >= MaxMsgs THEN "TransientBackendError"
  ELSE None

\* The response to a send of this content handled now.
SendResponse(t, r, message, upload, ok) ==
  LET role == ActingRole(t, "send")
      err == SendError(msgs, role, message, upload, ok) IN
  [Settled(r, role, err = None,
           IF err = None THEN <<NewMessage(msgs, r, role)>> ELSE <<>>)
     EXCEPT !.message = message, !.upload = upload, !.err = err]

\* sendChatMessage / sendExpertChatMessage(requestId, message, file) called
\* from tab t with this content and handled; the caller awaits the
\* response.
PostMessage(t, r, message, upload) ==
  LET role == ActingRole(t, "post") IN
  /\ calls[t]["post"].stage = "idle"
  /\ InFlight < MaxInFlight
  /\ \E ok \in BOOLEAN :
       /\ calls' = [calls EXCEPT ![t]["post"] = SendResponse(t, r, message, upload, ok)]
       /\ IF SendError(msgs, role, message, upload, ok) = None
          THEN /\ msgs' = StoreAppend(msgs, r, role)
               /\ markState' = SinceAfterSend(markState, r, role)
          ELSE UNCHANGED <<msgs, markState>>
  /\ UNCHANGED <<cursor, maxApplied, lastApplied>>
  /\ FrameApi

\* The caller's await returns: the created message, or the rejection.
ReturnPost(t) ==
  /\ calls[t]["post"].stage = "resp"
  /\ calls' = [calls EXCEPT ![t]["post"] = Idle]
  /\ UNCHANGED <<msgs, markState, cursor, maxApplied, lastApplied>>
  /\ FrameApi

\* sendChatMessage / sendExpertChatMessage called from tab t and handled:
\* 5 sendMessage appends one message of the caller's role.
SendMessage(t, r) ==
  /\ TotalMsgs(msgs) < MaxMsgs
  /\ ActingRole(t, "send") \in Roles
  /\ msgs' = StoreAppend(msgs, r, ActingRole(t, "send"))
  /\ markState' = SinceAfterSend(markState, r, ActingRole(t, "send"))
  /\ UNCHANGED <<cursor, calls, maxApplied, lastApplied>>
  /\ FrameApi

\* markChatRead called from tab t; 5 markRead starts by taking the id of
\* the request's latest message as the marker.
MarkTake(t, r) ==
  /\ calls[t]["mark"].stage = "idle"
  /\ InFlight < MaxInFlight
  /\ ActingRole(t, "mark") \in Roles
  /\ calls' = [calls EXCEPT ![t]["mark"] =
                 [Idle EXCEPT !.stage = "taken", !.req = r,
                              !.role = ActingRole(t, "mark"),
                              !.n = LatestId(msgs, r)]]
  /\ markState' = [tab |-> t, phase |-> "pending", req |-> r,
                   role |-> ActingRole(t, "mark"), since |-> 0]
  /\ UNCHANGED <<msgs, cursor, maxApplied, lastApplied>>
  /\ FrameApi

\* 5 markRead hands the marker to the tracker and the call returns.
MarkApply(t) ==
  LET c == calls[t]["mark"] IN
  /\ c.stage = "taken"
  /\ cursor' = CursorAfterMark(cursor, c.req, c.role, c.n)
  /\ maxApplied' = [maxApplied EXCEPT ![c.req][c.role] = IF c.n > @ THEN c.n ELSE @]
  /\ lastApplied' = [lastApplied EXCEPT ![c.req][c.role] = c.n]
  /\ calls' = [calls EXCEPT ![t]["mark"] = Idle]
  /\ markState' = IF markState.tab = t /\ markState.phase = "pending"
                  THEN [markState EXCEPT !.phase = "acked"]
                  ELSE markState
  /\ UNCHANGED msgs
  /\ FrameApi

\* The markChatRead call fails (TransientFailure): nothing is written and
\* the promise rejects.
MarkFail(t) ==
  /\ calls[t]["mark"].stage = "taken"
  /\ calls' = [calls EXCEPT ![t]["mark"] = Idle]
  /\ markState' = IF markState.tab = t /\ markState.phase = "pending"
                  THEN NoMark
                  ELSE markState
  /\ UNCHANGED <<msgs, cursor, maxApplied, lastApplied>>
  /\ FrameApi

(* --------------------------- the chat panels --------------------------- *)

FramePanel == UNCHANGED <<cursor, storage, maxApplied, lastApplied, markState,
                          mounted, pollInterval>>

\* The response to a panel's list call handled now.
ListResponse(t, op, r, ok) ==
  Settled(r, ActingRole(t, op), ok /\ ActingRole(t, op) \in Roles,
          IF ok /\ ActingRole(t, op) \in Roles THEN ListByRequest(msgs, r) ELSE <<>>)

\* The panel of request r mounts in tab t: init() / fetchChat() asks for
\* the chat session.
\* The effect cleanup leaves the interval registered.
clearInterval_kept(iv, t) == iv

\* return () => clearInterval(interval): the interval of tab t is gone.
clearInterval(iv, t) == [iv EXCEPT ![t] = None]

\* The panel of request r is rendered in tab t: its state is initial, its
\* effects set the open chat and register the 3 s interval.
PanelMounts(t, r) ==
  /\ panel' = [panel EXCEPT ![t] = r]
  /\ messages' = [messages EXCEPT ![t] = <<>>]
  /\ sending' = [sending EXCEPT ![t] = FALSE]
  /\ notified' = [notified EXCEPT ![t] = "idle"]
  /\ openChatId' = [openChatId EXCEPT ![t] = r]
  /\ interval' = [interval EXCEPT ![t] = r]
  /\ newMessage' = [newMessage EXCEPT ![t] = <<>>]
  /\ file' = [file EXCEPT ![t] = FALSE]

MountPanel(t, r) ==
  /\ t \in PanelTabs
  /\ panel[t] = None
  /\ \A op \in PanelOps : calls[t][op].stage = "idle"
  /\ InFlight < MaxInFlight
  /\ PanelMounts(t, r)
  /\ \E ok \in BOOLEAN :
       calls' = [calls EXCEPT ![t]["session"] = ListResponse(t, "session", r, ok)]
  /\ UNCHANGED <<msgs, acked, before, unreadCounts, lastMessageCounts>>
  /\ FramePanel

\* The panel of tab t unmounts: its state is gone and the effect cleanups
\* run (setOpenChatId(null)).
PanelUnmounts(t) ==
  /\ panel' = [panel EXCEPT ![t] = None]
  /\ messages' = [messages EXCEPT ![t] = <<>>]
  /\ sending' = [sending EXCEPT ![t] = FALSE]
  /\ notified' = [notified EXCEPT ![t] = "idle"]
  /\ openChatId' = [openChatId EXCEPT ![t] = None]
  /\ interval' = clearInterval(interval, t)
  /\ newMessage' = [newMessage EXCEPT ![t] = <<>>]
  /\ file' = [file EXCEPT ![t] = FALSE]

\* What the calls of an unmounted panel return later is dropped.
CallsAfterUnmount(t) ==
  [calls EXCEPT ![t] =
     [op \in Ops |-> IF op \in PanelOps /\ @[op].stage # "idle"
                     THEN [@[op] EXCEPT !.live = FALSE]
                     ELSE @[op]]]

\* onClose of the farmer page (setShowChat(false); setOpenChatId(null)):
\* the panel unmounts.
UnmountPanel(t) ==
  /\ panel[t] # None
  /\ PanelUnmounts(t)
  /\ calls' = CallsAfterUnmount(t)
  /\ UNCHANGED <<msgs, acked, before, unreadCounts, lastMessageCounts>>
  /\ FramePanel

\* await getChatSession / getExpertChatSession returns: the session's
\* messages are shown; on failure the message list is asked for instead.
ReturnSession(t) ==
  LET c == calls[t]["session"] IN
  /\ c.stage = "resp"
  /\ IF ~c.live
     THEN /\ calls' = [calls EXCEPT ![t]["session"] = Idle]
          /\ UNCHANGED messages
     ELSE IF c.ok
     THEN /\ calls' = [calls EXCEPT ![t]["session"] = Idle]
          /\ messages' = [messages EXCEPT ![t] = c.data]
     ELSE /\ \E ok \in BOOLEAN :
               calls' = [calls EXCEPT ![t]["session"] = Idle,
                                      ![t]["initlist"] = ListResponse(t, "initlist", c.req, ok)]
          /\ UNCHANGED messages
  /\ UNCHANGED <<msgs, panel, sending, notified, acked, before, interval>>
  /\ UNCHANGED <<pageVars, composeVars>>
  /\ FramePanel

\* The fallback getChatMessages / getExpertChatMessages returns; the user
\* panel ignores a failure, the expert panel shows an empty list.
ReturnInitList(t) ==
  LET c == calls[t]["initlist"] IN
  /\ c.stage = "resp"
  /\ calls' = [calls EXCEPT ![t]["initlist"] = Idle]
  /\ messages' = IF ~c.live THEN messages
                 ELSE IF c.ok THEN [messages EXCEPT ![t] = c.data]
                 ELSE IF PageOf(t) = "expert" THEN [messages EXCEPT ![t] = <<>>]
                 ELSE messages
  /\ UNCHANGED <<msgs, panel, sending, notified, acked, before, interval>>
  /\ UNCHANGED <<pageVars, composeVars>>
  /\ FramePanel

\* setInterval(..., 3000): a poll tick asks for the message list.
PollTick(t) ==
  /\ interval[t] # None
  /\ calls[t]["list"].stage = "idle"
  /\ InFlight < MaxInFlight
  /\ \E ok \in BOOLEAN :
       calls' = [calls EXCEPT ![t]["list"] = ListResponse(t, "list", interval[t], ok)]
  /\ UNCHANGED <<msgs, panel, messages, sending, notified, acked, before, interval>>
  /\ UNCHANGED <<pageVars, composeVars>>
  /\ FramePanel

\* The tick ends in its catch block after a failure.
PollCatch_stops(iv, t) == [iv EXCEPT ![t] = None]

\* catch {} (or a console log) of a poll tick: the failure goes no further
\* and the interval stays registered.
PollCatch(iv, t) == iv

\* handleNewMessage that sets the badges without ...prev: the badges of
\* the other conversations are gone.
handleNewMessageUnread_noSpread(u, requestId, open) ==
  [q \in DOMAIN u |-> IF q # requestId THEN 0
                      ELSE IF open = requestId THEN 0 ELSE u[q] + 1]

\* handleNewMessage of the page, the badges it leaves: 0 for the open
\* conversation, one more for any other.
handleNewMessageUnread(u, requestId, open) ==
  IF open = requestId
  THEN [u EXCEPT ![requestId] = 0]
  ELSE [u EXCEPT ![requestId] = @ + 1]

\* handleNewMessage of the page, the baselines it leaves: the farmer page
\* counts the message in for the open conversation, the expert dashboard
\* leaves its baseline alone.
handleNewMessageBaseline(page, b, requestId, open) ==
  IF open = requestId /\ page = "farmer"
  THEN [b EXCEPT ![requestId] = @ + 1]
  ELSE b

\* The poll's await returns: setMessages(prev => { ...; return latest });
\* onNewMessage is the page's handleNewMessage for the panel's request.
ReturnPoll(t) ==
  LET c == calls[t]["list"]
      notify == PollNotifies(c.data, messages[t], PageRole(PageOf(t))) IN
  /\ c.stage = "resp"
  /\ calls' = [calls EXCEPT ![t]["list"] = Idle]
  /\ IF c.live /\ c.ok
     THEN /\ notified' = [notified EXCEPT ![t] = IF notify THEN "notify" ELSE "quiet"]
          /\ messages' = [messages EXCEPT ![t] = PollResult(c.data, messages[t])]
          /\ IF notify
             THEN /\ unreadCounts' = [unreadCounts EXCEPT ![t] =
                         handleNewMessageUnread(@, c.req, openChatId[t])]
                  /\ lastMessageCounts' = [lastMessageCounts EXCEPT ![t] =
                         handleNewMessageBaseline(PageOf(t), @, c.req, openChatId[t])]
                  /\ unreadCounts'[t][c.req] <= MaxCount
                  /\ lastMessageCounts'[t][c.req] <= MaxCount
             ELSE UNCHANGED <<unreadCounts, lastMessageCounts>>
     ELSE UNCHANGED <<messages, notified, unreadCounts, lastMessageCounts>>
  /\ interval' = IF c.ok THEN interval ELSE PollCatch(interval, t)
  /\ UNCHANGED <<msgs, panel, sending, acked, before, openChatId, composeVars>>
  /\ FramePanel

\* useState loading of the expert's panel: true until fetchChat has
\* finished, and the panel renders only a spinner meanwhile (no compose
\* form, no close button).  The farmer's panel has no such state.
Loading(t) ==
  /\ PageOf(t) = "expert"
  /\ panel[t] # None
  /\ \E op \in {"session", "initlist"} : calls[t][op].stage # "idle" /\ calls[t][op].live

\* onChange of the text input (disabled while a send is under way).
setNewMessage(t, text) ==
  /\ panel[t] # None
  /\ ~Loading(t)
  /\ ~sending[t]
  /\ newMessage' = [newMessage EXCEPT ![t] = text]
  /\ UNCHANGED <<msgs, calls, panel, messages, sending, notified, acked, before,
                 interval, file>>
  /\ UNCHANGED pageVars
  /\ FramePanel

\* A click in the emoji picker: setNewMessage(prev => (prev || '') + em).
addEmoji(t) ==
  /\ panel[t] # None
  /\ ~Loading(t)
  /\ Len(newMessage[t]) < MaxText
  /\ newMessage' = [newMessage EXCEPT ![t] = Append(@, "x")]
  /\ UNCHANGED <<msgs, calls, panel, messages, sending, notified, acked, before,
                 interval, file>>
  /\ UNCHANGED pageVars
  /\ FramePanel

\* onChange of the file input, or the button that removes the attachment.
setFile(t, attached) ==
  /\ panel[t] # None
  /\ ~Loading(t)
  /\ file' = [file EXCEPT ![t] = attached]
  /\ UNCHANGED <<msgs, calls, panel, messages, sending, notified, acked, before,
                 interval, newMessage>>
  /\ UNCHANGED pageVars
  /\ FramePanel

\* handleSend / handleSendMessage: refused while sending or with nothing
\* to send; the message is sent as one request.
handleSend(t) ==
  LET r == panel[t]
      role == ActingRole(t, "send") IN
  /\ panel[t] # None
  /\ ~Loading(t)
  /\ CanSend(newMessage[t], file[t], sending[t])
  /\ calls[t]["send"].stage = "idle" \/ calls[t]["send"].live
  /\ InFlight < MaxInFlight
  /\ sending' = [sending EXCEPT ![t] = TRUE]
  /\ \E ok \in BOOLEAN :
       /\ calls' = [calls EXCEPT ![t]["send"] =
                      SendResponse(t, r, newMessage[t], file[t], ok)]
       /\ IF SendError(msgs, role, newMessage[t], file[t], ok) = None
          THEN /\ msgs' = StoreAppend(msgs, r, role)
               /\ before' = before \cup {<<a, NextId(msgs)>> : a \in acked \cap Ids(msgs[r])}
          ELSE UNCHANGED <<msgs, before>>
  /\ UNCHANGED <<panel, messages, notified, acked, interval>>
  /\ UNCHANGED <<pageVars, composeVars>>
  /\ FramePanel

\* The catch block drops the failure.
CatchSend_silent(c) == Idle

\* catch (e) { alert('Failed to send message'); }: the alert is on the
\* screen until the user dismisses it.
CatchSend(c) == [c EXCEPT !.stage = "alert"]

\* The send's await returns: setMessages(prev => [...prev, msg]) and the
\* compose state is cleared, finally setSending(false); or the catch block
\* alerts.
ReturnSend(t) ==
  LET c == calls[t]["send"] IN
  /\ c.stage = "resp"
  /\ calls' = [calls EXCEPT ![t]["send"] = IF c.ok THEN Idle ELSE CatchSend(c)]
  /\ messages' = IF c.live /\ c.ok
                 THEN [messages EXCEPT ![t] = SendResult(@, c.data[1])]
                 ELSE messages
  /\ newMessage' = IF c.live
                   THEN [newMessage EXCEPT ![t] = ComposeAfterSend(@, c.ok)]
                   ELSE newMessage
  /\ file' = IF c.live THEN [file EXCEPT ![t] = FileAfterSend(@, c.ok)] ELSE file
  /\ sending' = IF c.live /\ calls'[t]["send"].stage = "idle"
                THEN [sending EXCEPT ![t] = FALSE]
                ELSE sending
  /\ acked' = IF c.ok THEN acked \cup {c.data[1].id} ELSE acked
  /\ UNCHANGED <<msgs, panel, notified, before, interval>>
  /\ UNCHANGED pageVars
  /\ FramePanel

\* The user dismisses the alert: alert() returns and the finally block
\* runs setSending(false).
dismissAlert(t) ==
  LET c == calls[t]["send"] IN
  /\ c.stage = "alert"
  /\ calls' = [calls EXCEPT ![t]["send"] = Idle]
  /\ sending' = IF c.live THEN [sending EXCEPT ![t] = FALSE] ELSE sending
  /\ UNCHANGED <<msgs, panel, messages, notified, acked, before, interval>>
  /\ UNCHANGED <<pageVars, composeVars>>
  /\ FramePanel

(* ------------------------------ the pages ------------------------------ *)

FramePage == UNCHANGED <<msgs, cursor, storage, panel, messages, sending, notified,
                         maxApplied, lastApplied, markState, acked, before,
                         interval, mounted, composeVars>>

\* The pages whose 5 s interval polls the unread counts.
PageTabs == {"f1", "e1"}

\* The baseline the interval's callback reads.  setInterval was given the
\* checkForNewMessages of the page's first render (useEffect(..., [])), and
\* that function reads the lastMessageCounts of its own render: {}, so
\* lastMessageCounts[request.id] || 0 is 0.
IntervalLastKnown(t, r) == 0

\* The open chat the interval's callback reads: the openChatId of the
\* first render, null.
IntervalOpenChatId(t) == None

\* const unread = Math.max(0, currentCount - lastKnown)
FallbackUnread(currentCount, lastKnown) == Max(0, currentCount - lastKnown)

\* checkForNewMessages, the loop body for request r: the open chat is
\* skipped, getUnreadCount is called.
checkForNewMessages(t, r) ==
  /\ pollInterval[t] # None
  /\ IntervalOpenChatId(t) # r
  /\ \A op \in {"unread", "sync", "fallback"} : calls[t][op].stage = "idle"
  /\ InFlight < MaxInFlight
  /\ \E ok \in BOOLEAN :
       calls' = [calls EXCEPT ![t]["unread"] =
                   [Settled(r, ActingRole(t, "unread"),
                            ok /\ ActingRole(t, "unread") \in Roles, <<>>)
                      EXCEPT !.n = UnreadReturned(t, r)]]
  /\ UNCHANGED <<pageVars, pollInterval>>
  /\ FramePage

\* await getUnreadCount returns.  The badge is set to the server's count;
\* the expert dashboard then asks for the messages, to keep its baseline
\* when the count is 0 and to fall back on when the count is unavailable.
\* The farmer page only logs a failure.
ReturnUnread(t) ==
  LET c == calls[t]["unread"] IN
  /\ c.stage = "resp"
  /\ unreadCounts' = IF c.ok /\ mounted[t]
                     THEN [unreadCounts EXCEPT ![t][c.req] = c.n]
                     ELSE unreadCounts
  /\ IF PageOf(t) = "expert" /\ c.ok /\ c.n = 0
     THEN \E ok \in BOOLEAN :
            calls' = [calls EXCEPT ![t]["unread"] = Idle,
                                   ![t]["sync"] = ListResponse(t, "sync", c.req, ok)]
     ELSE IF PageOf(t) = "expert" /\ ~c.ok
     THEN \E ok \in BOOLEAN :
            calls' = [calls EXCEPT ![t]["unread"] = Idle,
                                   ![t]["fallback"] = ListResponse(t, "fallback", c.req, ok)]
     ELSE calls' = [calls EXCEPT ![t]["unread"] = Idle]
  /\ pollInterval' = IF c.ok THEN pollInterval ELSE PollCatch(pollInterval, t)
  /\ UNCHANGED <<lastMessageCounts, openChatId>>
  /\ FramePage

\* The expert dashboard's baseline sync returns: the baseline is the number
\* of the farmer's messages; a failure is ignored.
ReturnSync(t) ==
  LET c == calls[t]["sync"] IN
  /\ c.stage = "resp"
  /\ calls' = [calls EXCEPT ![t]["sync"] = Idle]
  /\ lastMessageCounts' =
       IF c.ok /\ mounted[t]
       THEN [lastMessageCounts EXCEPT ![t][c.req] =
               CounterpartCount(c.data, PageRole(PageOf(t)))]
       ELSE lastMessageCounts
  /\ pollInterval' = IF c.ok THEN pollInterval ELSE PollCatch(pollInterval, t)
  /\ UNCHANGED <<unreadCounts, openChatId>>
  /\ FramePage

\* The expert dashboard's fallback returns: the badge is the delta from the
\* last known count and the baseline becomes the current count; a failure
\* is only logged.
ReturnFallback(t) ==
  LET c == calls[t]["fallback"]
      currentCount == CounterpartCount(c.data, PageRole(PageOf(t))) IN
  /\ c.stage = "resp"
  /\ calls' = [calls EXCEPT ![t]["fallback"] = Idle]
  /\ IF c.ok /\ mounted[t]
     THEN /\ unreadCounts' = [unreadCounts EXCEPT ![t][c.req] =
                                FallbackUnread(currentCount, IntervalLastKnown(t, c.req))]
          /\ lastMessageCounts' = [lastMessageCounts EXCEPT ![t][c.req] = currentCount]
     ELSE UNCHANGED <<unreadCounts, lastMessageCounts>>
  /\ pollInterval' = IF c.ok THEN pollInterval ELSE PollCatch(pollInterval, t)
  /\ UNCHANGED openChatId
  /\ FramePage

\* markChatRead called from tab t and handled by the backend: when it
\* succeeds, 5 markRead moves the caller's cursor to the latest message.
MarkHandled(t, op, r, ok) ==
  LET role == ActingRole(t, op)
      at == LatestId(msgs, r) IN
  IF ok /\ role \in Roles
  THEN /\ cursor' = CursorAfterMark(cursor, r, role, at)
       /\ maxApplied' = [maxApplied EXCEPT ![r][role] = Max(@, at)]
       /\ lastApplied' = [lastApplied EXCEPT ![r][role] = at]
       /\ markState' = [tab |-> t, phase |-> "acked", req |-> r, role |-> role,
                        since |-> 0]
  ELSE /\ UNCHANGED <<cursor, maxApplied, lastApplied>>
       /\ markState' = NoMark

\* The settled markChatRead call of tab t.
MarkResponse(t, op, r, ok) ==
  Settled(r, ActingRole(t, op), ok /\ ActingRole(t, op) \in Roles, <<>>)

\* handleStartChat of the expert dashboard, up to its await:
\* markChatRead(request.id).
handleStartChat(t, r) ==
  /\ PageOf(t) = "expert"
  /\ mounted[t]
  /\ panel[t] = None
  /\ calls[t]["openmark"].stage = "idle"
  /\ InFlight < MaxInFlight
  /\ \E ok \in BOOLEAN :
       /\ MarkHandled(t, "openmark", r, ok)
       /\ calls' = [calls EXCEPT ![t]["openmark"] = MarkResponse(t, "openmark", r, ok)]
  /\ UNCHANGED <<msgs, storage, panel, messages, sending, notified, acked, before,
                 interval, mounted, pollInterval,
                 newMessage, file>>
  /\ UNCHANGED pageVars

\* openChat of the farmer page, up to its awaits: startChatSession, then
\* markChatRead; when startChatSession fails markChatRead is not called.
openChat(t, r) ==
  /\ PageOf(t) = "farmer"
  /\ mounted[t]
  /\ panel[t] = None
  /\ calls[t]["openmark"].stage = "idle"
  /\ InFlight < MaxInFlight
  /\ \E started \in BOOLEAN :
       IF started
       THEN \E ok \in BOOLEAN :
              /\ MarkHandled(t, "openmark", r, ok)
              /\ calls' = [calls EXCEPT ![t]["openmark"] =
                             MarkResponse(t, "openmark", r, ok)]
       ELSE /\ calls' = [calls EXCEPT ![t]["openmark"] =
                           MarkResponse(t, "openmark", r, FALSE)]
            /\ UNCHANGED <<cursor, maxApplied, lastApplied, markState>>
  /\ UNCHANGED <<msgs, storage, panel, messages, sending, notified, acked, before,
                 interval, mounted, pollInterval,
                 newMessage, file>>
  /\ UNCHANGED pageVars

\* handleStartChat / openChat after the awaits, whatever they returned:
\* the badge is cleared and the chat panel is shown, which mounts it.  On
\* a page that is gone the state updates do nothing.
ReturnOpen(t) ==
  LET c == calls[t]["openmark"] IN
  /\ c.stage = "resp"
  /\ IF mounted[t]
     THEN /\ panel[t] = None
          /\ \A op \in PanelOps : calls[t][op].stage = "idle"
          /\ unreadCounts' = [unreadCounts EXCEPT ![t][c.req] = 0]
          /\ PanelMounts(t, c.req)
          /\ \E ok \in BOOLEAN :
               calls' = [calls EXCEPT ![t]["openmark"] = Idle,
                                      ![t]["session"] = ListResponse(t, "session", c.req, ok)]
     ELSE /\ calls' = [calls EXCEPT ![t]["openmark"] = Idle]
          /\ UNCHANGED <<panel, messages, sending, notified, openChatId, interval,
                         unreadCounts, composeVars>>
  /\ UNCHANGED <<msgs, acked, before, lastMessageCounts>>
  /\ FramePanel

\* The panel's mount effect calls onMarkAsRead(requestId), the page's
\* markMessagesAsRead; the effect runs again whenever the page renders,
\* the callback being a new function each time.  The expert dashboard
\* calls markChatRead; the farmer page fetches the messages.
markMessagesAsRead(t) ==
  LET r == panel[t] IN
  /\ panel[t] # None
  /\ calls[t]["readmark"].stage = "idle"
  /\ InFlight < MaxInFlight
  /\ IF PageOf(t) = "expert"
     THEN \E ok \in BOOLEAN :
            /\ MarkHandled(t, "readmark", r, ok)
            /\ calls' = [calls EXCEPT ![t]["readmark"] =
                           MarkResponse(t, "readmark", r, ok)]
     ELSE /\ \E ok \in BOOLEAN :
               calls' = [calls EXCEPT ![t]["readmark"] =
                           ListResponse(t, "readmark", r, ok)]
          /\ UNCHANGED <<cursor, maxApplied, lastApplied, markState>>
  /\ UNCHANGED <<msgs, storage, panel, messages, sending, notified, acked, before,
                 interval, mounted, pollInterval,
                 newMessage, file>>
  /\ UNCHANGED pageVars

\* markMessagesAsRead after its await: on success the badge is cleared (and
\* the farmer page sets its baseline to the number of the expert's
\* messages); a failure is ignored.
ReturnMarkAsRead(t) ==
  LET c == calls[t]["readmark"] IN
  /\ c.stage = "resp"
  /\ calls' = [calls EXCEPT ![t]["readmark"] = Idle]
  /\ unreadCounts' = IF c.ok /\ mounted[t]
                     THEN [unreadCounts EXCEPT ![t][c.req] = 0]
                     ELSE unreadCounts
  /\ lastMessageCounts' =
       IF c.ok /\ mounted[t] /\ PageOf(t) = "farmer"
       THEN [lastMessageCounts EXCEPT ![t][c.req] =
               CounterpartCount(c.data, PageRole(PageOf(t)))]
       ELSE lastMessageCounts
  /\ UNCHANGED <<openChatId, pollInterval>>
  /\ FramePage

\* handleCloseChat of the expert dashboard: the badge is cleared,
\* markChatRead is called without being awaited, and the panel unmounts.
handleCloseChat(t) ==
  LET r == panel[t] IN
  /\ PageOf(t) = "expert"
  /\ panel[t] # None
  /\ ~Loading(t)
  /\ calls[t]["closemark"].stage = "idle"
  /\ InFlight < MaxInFlight
  /\ unreadCounts' = [unreadCounts EXCEPT ![t][r] = 0]
  /\ PanelUnmounts(t)
  /\ \E ok \in BOOLEAN :
       /\ MarkHandled(t, "closemark", r, ok)
       /\ calls' = [CallsAfterUnmount(t) EXCEPT ![t]["closemark"] =
                      MarkResponse(t, "closemark", r, ok)]
  /\ UNCHANGED <<msgs, storage, acked, before, lastMessageCounts, mounted, pollInterval>>

\* The page of tab t is left (navigation): the effect cleanup clears the
\* 5 s interval and the page's state is gone.
UnmountPage(t) ==
  /\ mounted[t]
  /\ panel[t] = None
  /\ mounted' = [mounted EXCEPT ![t] = FALSE]
  /\ pollInterval' = clearInterval(pollInterval, t)
  /\ unreadCounts' = [unreadCounts EXCEPT ![t] = [r \in Requests |-> 0]]
  /\ lastMessageCounts' = [lastMessageCounts EXCEPT ![t] = [r \in Requests |-> 0]]
  /\ UNCHANGED <<msgs, cursor, storage, calls, panel, messages, sending, notified,
                 maxApplied, lastApplied, markState, acked, before, openChatId,
                 interval, composeVars>>

\* The markChatRead of handleCloseChat returns: catch {} and nothing else.
ReturnClose(t) ==
  /\ calls[t]["closemark"].stage = "resp"
  /\ calls' = [calls EXCEPT ![t]["closemark"] = Idle]
  /\ UNCHANGED <<pageVars, pollInterval>>
  /\ FramePage

(* --------------------------- specifications ---------------------------- *)

\* The chat API under free callers.
NextApi ==
  \/ \E b \in Browsers : login(b)
  \/ \E b \in Browsers : logout(b)
  \/ \E b \in Browsers : setAuthToken(b)
  \/ \E b \in Browsers : clearAuthToken(b)
  \/ \E t \in Tabs, r \in Requests : SendMessage(t, r)
  \/ \E t \in Tabs, r \in Requests : MarkTake(t, r)
  \/ \E t \in Tabs : MarkApply(t)
  \/ \E t \in Tabs : MarkFail(t)

SpecApi == Init /\ [][NextApi]_vars

\* The request whose chat the pages open and whose badge they poll.
PageRequests == {"R1"}

\* The chat panels of the two pages.
NextPanel ==
  \/ \E t \in PanelTabs, r \in PageRequests : MountPanel(t, r)
  \/ \E t \in PanelTabs : UnmountPanel(t)
  \/ \E t \in PanelTabs : ReturnSession(t)
  \/ \E t \in PanelTabs : ReturnInitList(t)
  \/ \E t \in PanelTabs : PollTick(t)
  \/ \E t \in PanelTabs : ReturnPoll(t)
  \/ \E t \in PanelTabs : setNewMessage(t, <<"x">>)
  \/ \E t \in PanelTabs : handleSend(t)
  \/ \E t \in PanelTabs : ReturnSend(t)
  \/ \E t \in PanelTabs : dismissAlert(t)

SpecPanel == Init /\ [][NextPanel]_vars

\* One of the two pages is rendered, the farmer page or the expert
\* dashboard; the other party is not on its page.
InitPage ==
  /\ InitStore
  /\ \E p \in PageTabs :
       /\ mounted = [t \in Tabs |-> t = p]
       /\ pollInterval = [t \in Tabs |-> IF t = p THEN "on" ELSE None]

\* The rendered page: its unread polling, opening and closing the chat, the
\* open panel's polling, leaving the page; both parties send through the
\* API.
NextPage ==
  \/ \E t \in PageTabs, r \in PageRequests : SendMessage(t, r)
  \/ \E t \in PageTabs, r \in PageRequests : checkForNewMessages(t, r)
  \/ \E t \in PageTabs : ReturnUnread(t)
  \/ \E t \in PageTabs : ReturnSync(t)
  \/ \E t \in PageTabs : ReturnFallback(t)
  \/ \E t \in PageTabs, r \in PageRequests : handleStartChat(t, r)
  \/ \E t \in PageTabs, r \in PageRequests : openChat(t, r)
  \/ \E t \in PageTabs : ReturnOpen(t)
  \/ \E t \in PageTabs : markMessagesAsRead(t)
  \/ \E t \in PageTabs : ReturnMarkAsRead(t)
  \/ \E t \in PageTabs : handleCloseChat(t)
  \/ \E t \in PageTabs : ReturnClose(t)
  \/ \E t \in PageTabs : PageOf(t) = "farmer" /\ UnmountPanel(t)
  \/ \E t \in PageTabs : UnmountPage(t)
  \/ \E t \in PageTabs : ReturnSession(t)
  \/ \E t \in PageTabs : ReturnInitList(t)
  \/ \E t \in PageTabs : PollTick(t)
  \/ \E t \in PageTabs : ReturnPoll(t)

SpecPage == InitPage /\ [][NextPage]_vars

\* The tab that calls the API outside a chat panel.
ApiTabs == {"e2"}

\* Composing and sending in the chat panel of the rendered page, and sends
\* of any short content issued straight through the API.
NextCompose ==
  \/ \E t \in PanelTabs, r \in PageRequests : mounted[t] /\ MountPanel(t, r)
  \/ \E t \in PanelTabs : UnmountPanel(t)
  \/ \E t \in PanelTabs : ReturnSession(t)
  \/ \E t \in PanelTabs : ReturnInitList(t)
  \/ \E t \in PanelTabs, text \in Texts : setNewMessage(t, text)
  \/ \E t \in PanelTabs : addEmoji(t)
  \/ \E t \in PanelTabs, attached \in BOOLEAN : setFile(t, attached)
  \/ \E t \in PanelTabs : handleSend(t)
  \/ \E t \in PanelTabs : ReturnSend(t)
  \/ \E t \in PanelTabs : dismissAlert(t)
  \/ \E t \in ApiTabs, r \in PageRequests, text \in Texts, attached \in BOOLEAN :
       Len(text) <= 1 /\ PostMessage(t, r, text, attached)
  \/ \E t \in ApiTabs : ReturnPost(t)

SpecCompose == InitPage /\ [][NextCompose]_vars

\* Opening a session: the init of the rendered page's panel and
\* getChatSession called straight through the API, for any request id and
\* from any account, while the counterpart sends and messages are marked
\* read.
NextSession ==
  \/ \E t \in PanelTabs, r \in PageRequests : mounted[t] /\ MountPanel(t, r)
  \/ \E t \in PanelTabs : UnmountPanel(t)
  \/ \E t \in PanelTabs : ReturnSession(t)
  \/ \E t \in PanelTabs : ReturnInitList(t)
  \/ \E t \in PanelTabs, r \in PageRequests : ~mounted[t] /\ SendMessage(t, r)
  \/ \E t \in ApiTabs, r \in PageRequests : MarkTake(t, r)
  \/ \E t \in ApiTabs : MarkApply(t)
  \/ \E t \in ApiTabs : MarkFail(t)
  \/ \E t \in Tabs, r \in RequestIds, who \in Accounts : GetSession(t, r, who)
  \/ \E t \in Tabs : ReturnGetSession(t)

SpecSession == InitPage /\ [][NextSession]_vars

\* The rendered page with both conversations: it polls the badges of both,
\* opens and closes the chat of the first, and the counterpart sends in
\* both.
NextCross ==
  \/ \E t \in PageTabs, r \in Requests : ~mounted[t] /\ SendMessage(t, r)
  \/ \E t \in PageTabs, r \in Requests : checkForNewMessages(t, r)
  \/ \E t \in PageTabs : ReturnUnread(t)
  \/ \E t \in PageTabs : ReturnSync(t)
  \/ \E t \in PageTabs : ReturnFallback(t)
  \/ \E t \in PageTabs, r \in PageRequests : handleStartChat(t, r)
  \/ \E t \in PageTabs, r \in PageRequests : openChat(t, r)
  \/ \E t \in PageTabs : ReturnOpen(t)
  \/ \E t \in PageTabs : markMessagesAsRead(t)
  \/ \E t \in PageTabs : ReturnMarkAsRead(t)
  \/ \E t \in PageTabs : handleCloseChat(t)
  \/ \E t \in PageTabs : ReturnClose(t)
  \/ \E t \in PageTabs : PageOf(t) = "farmer" /\ UnmountPanel(t)
  \/ \E t \in PageTabs : ReturnSession(t)
  \/ \E t \in PageTabs : ReturnInitList(t)
  \/ \E t \in PageTabs : PollTick(t)
  \/ \E t \in PageTabs : ReturnPoll(t)

SpecCross == InitPage /\ [][NextCross]_vars

\* The polling of the rendered page and of its chat panel, with the
\* counterpart's sends.
NextTick ==
  \/ \E t \in PageTabs, r \in PageRequests : ~mounted[t] /\ SendMessage(t, r)
  \/ \E t \in PageTabs, r \in PageRequests : checkForNewMessages(t, r)
  \/ \E t \in PageTabs : ReturnUnread(t)
  \/ \E t \in PageTabs : ReturnSync(t)
  \/ \E t \in PageTabs : ReturnFallback(t)
  \/ \E t \in PageTabs, r \in PageRequests : handleStartChat(t, r)
  \/ \E t \in PageTabs, r \in PageRequests : openChat(t, r)
  \/ \E t \in PageTabs : ReturnOpen(t)
  \/ \E t \in PageTabs : handleCloseChat(t)
  \/ \E t \in PageTabs : ReturnClose(t)
  \/ \E t \in PageTabs : PageOf(t) = "farmer" /\ UnmountPanel(t)
  \/ \E t \in PageTabs : ReturnSession(t)
  \/ \E t \in PageTabs : ReturnInitList(t)
  \/ \E t \in PageTabs : PollTick(t)
  \/ \E t \in PageTabs : ReturnPoll(t)

SpecTick == InitPage /\ [][NextTick]_vars

\* setInterval keeps calling its callback, every 3 s in a panel and every
\* 5 s on a page, for as long as the interval is registered, and every
\* awaited request settles.
FairTick ==
  /\ SpecTick
  /\ \A t \in PageTabs :
       /\ SF_vars(PollTick(t))
       /\ SF_vars(\E r \in PageRequests : checkForNewMessages(t, r))
       /\ WF_vars(ReturnPoll(t))
       /\ WF_vars(ReturnUnread(t))
       /\ WF_vars(ReturnSync(t))
       /\ WF_vars(ReturnFallback(t))
       /\ WF_vars(ReturnSession(t))
       /\ WF_vars(ReturnInitList(t))
       /\ WF_vars(ReturnOpen(t))
       /\ WF_vars(ReturnClose(t))

\* The pages' API calls, their chat panels and their polling together.
\* The rendered page and its badges: the counterpart sends, the page polls
\* every 5 s, a chat is opened and closed, and a second login in the
\* farmer's browser comes and goes.
NextBadge ==
  \/ \E t \in PageTabs, r \in PageRequests : ~mounted[t] /\ SendMessage(t, r)
  \/ login("bf")
  \/ logout("bf")
  \/ \E t \in PageTabs, r \in PageRequests : checkForNewMessages(t, r)
  \/ \E t \in PageTabs : ReturnUnread(t)
  \/ \E t \in PageTabs : ReturnSync(t)
  \/ \E t \in PageTabs : ReturnFallback(t)
  \/ \E t \in PageTabs, r \in PageRequests : handleStartChat(t, r)
  \/ \E t \in PageTabs, r \in PageRequests : openChat(t, r)
  \/ \E t \in PageTabs : ReturnOpen(t)
  \/ \E t \in PageTabs : handleCloseChat(t)
  \/ \E t \in PageTabs : ReturnClose(t)
  \/ \E t \in PageTabs : PageOf(t) = "farmer" /\ UnmountPanel(t)
  \/ \E t \in PageTabs : ReturnSession(t)
  \/ \E t \in PageTabs : ReturnInitList(t)

SpecBadge == InitPage /\ [][NextBadge]_vars

\* The page's 5 s interval keeps calling checkForNewMessages for as long as
\* it is registered, and every awaited request settles.
FairBadge ==
  /\ SpecBadge
  /\ \A t \in PageTabs :
       /\ SF_vars(\E r \in PageRequests : checkForNewMessages(t, r))
       /\ WF_vars(ReturnUnread(t))
       /\ WF_vars(ReturnSync(t))
       /\ WF_vars(ReturnFallback(t))
       /\ WF_vars(ReturnSession(t))
       /\ WF_vars(ReturnInitList(t))
       /\ WF_vars(ReturnOpen(t))
       /\ WF_vars(ReturnClose(t))

Next ==
  \/ NextApi \/ NextPanel \/ NextCompose \/ NextSession \/ NextPage \/ NextCross
  \/ NextTick \/ NextBadge

Spec == Init /\ [][Next]_vars

(* ------------------------- properties: the API ------------------------- *)

\* Position in the request's list of the message the role's cursor names
\* (0: nothing read).
CursorPosition(r, role) ==
  IF \E i \in DOMAIN msgs[r] : msgs[r][i].id = cursor[r][role]
  THEN CHOOSE i \in DOMAIN msgs[r] : msgs[r][i].id = cursor[r][role]
  ELSE 0

\* Messages of the request sent by the other role that lie after the
\* role's cursor, counted by position in the list.
UnreadByPosition(r, role) ==
  Cardinality({i \in DOMAIN msgs[r] :
                 i > CursorPosition(r, role) /\ msgs[r][i].sender = Other(role)})

\* C1: for every (request, role) pair the read cursor equals the largest
\* marker ever applied, whatever the order of the markRead calls and also
\* when two tabs of one role call concurrently; no step moves a cursor
\* backwards, and a markRead with the same or an older marker leaves every
\* cursor as it was.
C1_MonotonicCursor ==
  /\ [](cursor = maxApplied)
  /\ [][/\ \A r \in Requests, role \in Roles : cursor'[r][role] >= cursor[r][role]
        /\ \A t \in Tabs :
             (MarkApply(t) /\ calls[t]["mark"].n
                               <= cursor[calls[t]["mark"].req][calls[t]["mark"].role])
               => cursor' = cursor]_vars

\* An older marker was applied after a newer one and the cursor kept the
\* newer one.
C1_Witness ==
  \E r \in Requests, role \in Roles :
    /\ lastApplied[r][role] < cursor[r][role]
    /\ lastApplied[r][role] < maxApplied[r][role]

\* C2: in every reachable state, for every request and every caller,
\* getUnreadCount returns the number of messages of the request sent by the
\* other role that lie strictly after the caller role's read cursor, and
\* never a negative number.
C2_UnreadCorrect ==
  \A t \in Tabs, r \in Requests :
    /\ UnreadReturned(t, r) = UnreadByPosition(r, ActingRole(t, "unread"))
    /\ UnreadReturned(t, r) >= 0

\* A caller's cursor stands on a message of the request and one counterpart
\* message lies after it.
C2_Witness ==
  \E t \in Tabs, r \in Requests :
    /\ cursor[r][ActingRole(t, "unread")] > 0
    /\ UnreadReturned(t, r) = 1

\* C3: after a successful markRead(request, role) with no counterpart
\* message sent since the call was issued, the role's unread count of the
\* request is 0, and getUnreadCount returns 0 to the caller when issued for
\* that role right after the markRead returned.
C3_ReadZeroesUnread ==
  (markState.phase = "acked" /\ markState.since = 0) =>
    /\ UnreadCount(msgs, cursor, markState.req, markState.role) = 0
    /\ ActingRole(markState.tab, "unread") = markState.role
         => UnreadReturned(markState.tab, markState.req) = 0

\* The expert dashboard's markRead has returned for a request that holds a
\* farmer's message, none sent since.
C3_Witness ==
  /\ markState.phase = "acked"
  /\ markState.since = 0
  /\ PageOf(markState.tab) = "expert"
  /\ markState.role = "expert"
  /\ CounterpartCount(msgs[markState.req], "expert") > 0

\* C4 as claimed: getUnreadCount issued by the caller right after the
\* caller's markRead returns 0 even when a counterpart message was sent
\* between the two calls.
C4_ZeroDespiteSend ==
  markState.phase = "acked" =>
    UnreadCount(msgs, cursor, markState.req, markState.role) = 0

\* C4 amended: after the caller's markRead returned, the unread count of
\* the role is at most the number of counterpart messages sent since the
\* markRead was issued (the mark is visible to the read that follows; a
\* counterpart message interleaved with the two calls is counted), and
\* getUnreadCount returns that to the caller.
C4_MarkVisibleToNextRead ==
  markState.phase = "acked" =>
    /\ UnreadCount(msgs, cursor, markState.req, markState.role) <= markState.since
    /\ ActingRole(markState.tab, "unread") = markState.role
         => UnreadReturned(markState.tab, markState.req) <= markState.since

\* A counterpart message was sent after the markRead was issued; the
\* markRead has returned, an earlier counterpart message is read and the
\* new one is the only unread one.
C4_Witness ==
  /\ markState.phase = "acked"
  /\ markState.since = 1
  /\ CounterpartCount(msgs[markState.req], markState.role) = 2
  /\ ActingRole(markState.tab, "unread") = markState.role
  /\ UnreadReturned(markState.tab, markState.req) = 1

\* C6: a send made from a page is a message of the page's own role; the
\* step that appends a message of one role leaves the other role's read
\* cursor for the request unchanged and raises the other role's unread
\* count for the request by exactly 1.
C6_SendRaisesCounterpartUnread ==
  /\ [](\A t \in Tabs : ActingRole(t, "send") = PageRole(PageOf(t)))
  /\ [][\A r \in Requests :
          msgs'[r] # msgs[r] =>
            /\ Len(msgs'[r]) = Len(msgs[r]) + 1
            /\ LET s == msgs'[r][Len(msgs'[r])].sender IN
               /\ s \in Roles
               /\ cursor'[r][Other(s)] = cursor[r][Other(s)]
               /\ UnreadCount(msgs', cursor', r, Other(s))
                    = UnreadCount(msgs, cursor, r, Other(s)) + 1]_vars

\* The farmer's first message on R1 and the expert's reply: each role has
\* one unread message and has read nothing.
C6_Witness ==
  /\ Len(msgs["R1"]) = 2
  /\ msgs["R1"][1].sender = "user"
  /\ msgs["R1"][2].sender = "expert"
  /\ cursor["R1"]["user"] = 0 /\ cursor["R1"]["expert"] = 0
  /\ UnreadCount(msgs, cursor, "R1", "expert") = 1
  /\ UnreadCount(msgs, cursor, "R1", "user") = 1

\* C7: a step of markRead(request, role) changes no cursor but that role's
\* cursor for that request, and leaves the other role's unread count for
\* the request as it was.
C7_MarkReadFrame ==
  [][\A t \in Tabs :
       calls'[t]["mark"] # calls[t]["mark"] =>
         LET c == IF calls[t]["mark"].stage = "taken"
                  THEN calls[t]["mark"] ELSE calls'[t]["mark"] IN
         /\ \A r \in Requests, role \in Roles :
              <<r, role>> # <<c.req, c.role>> => cursor'[r][role] = cursor[r][role]
         /\ UnreadCount(msgs', cursor', c.req, Other(c.role))
              = UnreadCount(msgs, cursor, c.req, Other(c.role))]_vars

\* The expert has read a conversation in which each role has sent one
\* message: the farmer's cursor is untouched and the farmer's unread count
\* is still 1.
C7_Witness ==
  \E r \in Requests :
    /\ cursor[r]["expert"] > 0
    /\ lastApplied[r]["expert"] > 0
    /\ cursor[r]["user"] = 0
    /\ UnreadCount(msgs, cursor, r, "user") = 1
    /\ UnreadCount(msgs, cursor, r, "expert") = 0

\* C8: every mark-read and unread-count request issued from the farmer
\* page is performed as the user role and every one issued from the expert
\* dashboard as the expert role, whatever credentials the browser holds.
C8_PagesActAsOwnRole ==
  \A t \in Tabs :
    /\ ActingRole(t, "mark") = PageRole(PageOf(t))
    /\ ActingRole(t, "unread") = PageRole(PageOf(t))

(* ---------------------- properties: the chat panels -------------------- *)

\* The settled list calls (session, fallback list, poll) that succeeded.
ListResponses ==
  {c \in {calls[t][op] : t \in Tabs, op \in {"session", "initlist", "list"}} :
     c.stage = "resp" /\ c.ok}

\* The list holds the messages of its request in the order they were sent:
\* a message whose send had returned before another was sent stands before
\* it whenever the other is in the list.
InSendOrder(list) ==
  \A p \in before :
    \A j \in DOMAIN list :
      list[j].id = p[2] => \E i \in 1..(j - 1) : list[i].id = p[1]

\* The poll of tab t returns to its mounted panel with a list.
PollApplies(t) ==
  /\ calls[t]["list"].stage = "resp"
  /\ calls'[t]["list"].stage = "idle"
  /\ calls[t]["list"].live
  /\ calls[t]["list"].ok

\* C5: the step that appends a message of one role leaves that role's own
\* read cursor and own unread count for the request unchanged; in a chat
\* panel the local append of the sent message notifies nobody, and a poll
\* tick notifies only when the polled list holds a counterpart message the
\* panel did not show, never for the sender's own message.
C5_OwnMessageNeverUnread ==
  [][/\ \A r \in Requests :
          msgs'[r] # msgs[r] =>
            LET s == msgs'[r][Len(msgs'[r])].sender IN
            /\ cursor'[r][s] = cursor[r][s]
            /\ UnreadCount(msgs', cursor', r, s) = UnreadCount(msgs, cursor, r, s)
     /\ \A t \in PanelTabs :
          /\ (calls[t]["send"].stage = "resp" /\ calls'[t]["send"].stage = "idle")
               => notified'[t] = notified[t]
          /\ (PollApplies(t) /\ notified'[t] = "notify")
               => \E i \in DOMAIN calls[t]["list"].data :
                    /\ calls[t]["list"].data[i].sender = Other(PageRole(PageOf(t)))
                    /\ calls[t]["list"].data[i].id \notin Ids(messages[t])]_vars

\* A panel's poll brought the panel's own message, sent after a counterpart
\* message and not yet returned to the panel, and the tick stayed quiet.
C5_Witness ==
  \E t \in PanelTabs :
    /\ panel[t] # None
    /\ notified[t] = "quiet"
    /\ Len(messages[t]) = 2
    /\ messages[t] = msgs[panel[t]]
    /\ messages[t][1].sender = Other(PageRole(PageOf(t)))
    /\ messages[t][2].sender = PageRole(PageOf(t))
    /\ messages[t][2].id \notin acked
    /\ calls[t]["send"].stage = "resp"

\* C9: the message list of a request and every list returned for it hold
\* the messages in the order they were sent, and the panel that applies a
\* polled list shows exactly that list, in that order.
C9_OrderRoundTrip ==
  /\ [](/\ \A r \in Requests : InSendOrder(ListByRequest(msgs, r))
        /\ \A c \in ListResponses : InSendOrder(c.data))
  /\ [][\A t \in PanelTabs :
          PollApplies(t) =>
            /\ messages'[t] = calls[t]["list"].data
            /\ InSendOrder(messages'[t])]_vars

\* The farmer's panel shows, after a poll that notified, the farmer's
\* message and the expert's reply sent after the farmer's send had returned.
C9_Witness ==
  /\ panel["f1"] # None
  /\ notified["f1"] = "notify"
  /\ Len(messages["f1"]) = 2
  /\ messages["f1"][1].sender = "user"
  /\ messages["f1"][2].sender = "expert"
  /\ <<messages["f1"][1].id, messages["f1"][2].id>> \in before

\* C10: the message list of a request only grows at its end (no message is
\* edited or deleted), every list returned for a request is a prefix of the
\* request's list from then on, so of every list returned later, and a
\* returned list that holds a message holds every message sent before it in
\* the conversation.
C10_AppendOnlyPrefix ==
  /\ [](\A c \in ListResponses :
          /\ IsPrefix(c.data, ListByRequest(msgs, c.req))
          /\ \A p \in before : p[2] \in Ids(c.data) => p[1] \in Ids(c.data))
  /\ [][\A r \in Requests : IsPrefix(msgs[r], msgs'[r])]_vars

\* Two lists of one conversation are in flight, the earlier one with the
\* farmer's message, the later one with the expert's message as well.
C10_Witness ==
  \E r \in Requests :
    /\ calls["f1"]["list"].stage = "resp" /\ calls["f1"]["list"].ok
    /\ calls["e1"]["list"].stage = "resp" /\ calls["e1"]["list"].ok
    /\ calls["f1"]["list"].req = r /\ calls["e1"]["list"].req = r
    /\ Len(calls["f1"]["list"].data) = 1
    /\ Len(calls["e1"]["list"].data) = 2
    /\ calls["e1"]["list"].data[1].sender = "user"
    /\ calls["e1"]["list"].data[2].sender = "expert"
    /\ IsPrefix(calls["f1"]["list"].data, calls["e1"]["list"].data)

\* Counterpart messages of the polled list that the panel of tab t does not
\* show yet.
NewlyAppeared(t) ==
  {i \in DOMAIN calls[t]["list"].data :
     /\ calls[t]["list"].data[i].sender = Other(PageRole(PageOf(t)))
     /\ calls[t]["list"].data[i].id \notin Ids(messages[t])}

\* C11: a poll tick of a chat panel raises onNewMessage once for every
\* counterpart message that newly appears in the polled list: as many
\* notifications as there are such messages, none when there is none.
C11_NotifyOncePerNewMessage ==
  [][\A t \in PanelTabs :
       PollApplies(t) =>
         (IF notified'[t] = "notify" THEN 1 ELSE 0) = Cardinality(NewlyAppeared(t))]_vars

\* C12: when a panel's poll notifies the page of a new counterpart message
\* while the page holds the panel's conversation as open, handleNewMessage
\* leaves the displayed unread count of the conversation at 0 and advances
\* the page's baseline for it.
C12_OpenChatNotification ==
  [][\A t \in PanelTabs :
       LET r == calls[t]["list"].req IN
       (PollApplies(t) /\ notified'[t] = "notify" /\ openChatId[t] = r) =>
         /\ unreadCounts'[t][r] = 0
         /\ lastMessageCounts'[t][r] > lastMessageCounts[t][r]]_vars

\* The fallback fetch of tab t returns with the message list.
FallbackApplies(t) ==
  /\ calls[t]["fallback"].stage = "resp"
  /\ calls'[t]["fallback"].stage = "idle"
  /\ calls[t]["fallback"].ok

\* C13: when the server's unread count is unavailable in a poll tick of the
\* expert dashboard, the tick sets the displayed unread count to
\* max(0, current - lastKnown), current being the number of the farmer's
\* messages now and lastKnown the baseline the dashboard holds, and the
\* baseline becomes current.
C13_FallbackDelta ==
  [][\A t \in PageTabs :
       LET r == calls[t]["fallback"].req
           current == CounterpartCount(calls[t]["fallback"].data, PageRole(PageOf(t))) IN
       FallbackApplies(t) =>
         /\ unreadCounts'[t][r] = Max(0, current - lastMessageCounts[t][r])
         /\ lastMessageCounts'[t][r] = current]_vars

\* C14: on the farmer page and on the expert dashboard alike, a poll tick
\* whose getUnreadCount fails goes on to the local fallback: it fetches the
\* messages to compute the delta and to update the baseline.
C14_BothPagesFallBack ==
  [][\A t \in PageTabs :
       (/\ calls[t]["unread"].stage = "resp"
        /\ ~calls[t]["unread"].ok
        /\ calls'[t]["unread"].stage = "idle")
         => calls'[t]["fallback"].stage = "resp"]_vars

\* A markChatRead of tab t that failed returns to the handler that made it.
FailedMarkReturns(t, op) ==
  /\ calls[t][op].stage = "resp"
  /\ ~calls[t][op].ok
  /\ calls'[t][op].stage = "idle"

\* C16: when a markChatRead request has failed, the step in which the
\* failure returns to the page (opening the chat, the panel's mark-as-read
\* callback) does not set the displayed unread count of the conversation to
\* 0, and closing the chat with a failing markChatRead does not either.
C16_FailedMarkKeepsBadge ==
  [][\A t \in PageTabs :
       /\ \A op \in {"openmark", "readmark"} :
            (FailedMarkReturns(t, op) /\ unreadCounts[t][calls[t][op].req] > 0)
              => unreadCounts'[t][calls[t][op].req] > 0
       /\ \A r \in Requests :
            (/\ calls[t]["closemark"].stage = "idle"
             /\ calls'[t]["closemark"].stage = "resp"
             /\ ~calls'[t]["closemark"].ok
             /\ calls'[t]["closemark"].req = r
             /\ unreadCounts[t][r] > 0)
              => unreadCounts'[t][r] > 0]_vars

\* C17: the step that closes an open chat panel issues a markChatRead for
\* the panel's request, on the farmer page as on the expert dashboard.
C17_CloseIssuesMarkRead ==
  [][\A t \in PageTabs :
       (panel[t] # None /\ panel'[t] = None) =>
         /\ calls[t]["closemark"].stage = "idle"
         /\ calls'[t]["closemark"].stage = "resp"
         /\ calls'[t]["closemark"].req = panel[t]]_vars

PanelTickFails(t) ==
  /\ calls[t]["list"].stage = "resp"
  /\ ~calls[t]["list"].ok
  /\ calls'[t]["list"].stage = "idle"

\* A step of tab t's page tick returns with a failure: the unread count,
\* the baseline sync or the fallback fetch.
PageTickFails(t) ==
  \E op \in {"unread", "sync", "fallback"} :
    /\ calls[t][op].stage = "resp"
    /\ ~calls[t][op].ok
    /\ calls'[t][op].stage = "idle"

\* No tick of tab t's page is under way.
PageTickIdle(t) ==
  \A op \in {"unread", "sync", "fallback"} : calls[t][op].stage = "idle"

SendFails(t) ==
  /\ calls[t]["send"].stage = "resp"
  /\ ~calls[t]["send"].ok
  /\ calls[t]["send"].live
  /\ calls'[t]["send"].stage # "resp"

\* The user dismisses the alert of the mounted panel of tab t in this step.
AlertDismissed(t) ==
  /\ calls[t]["send"].stage = "alert"
  /\ calls[t]["send"].live
  /\ calls'[t]["send"].stage = "idle"

\* C19: when the send request of a mounted panel fails, the failure is
\* shown to the user (an alert), the step leaves the compose text, the
\* selected attachment and the local message list as they are, the text
\* that was sent is still in the input, and once the alert is dismissed the
\* sending flag is released, so that the input can be sent again unless the
\* user changed the attachment meanwhile.
C19_FailedSendSurfaced ==
  [][\A t \in PanelTabs :
       /\ SendFails(t) =>
            /\ calls'[t]["send"].stage = "alert"
            /\ newMessage'[t] = newMessage[t]
            /\ file'[t] = file[t]
            /\ messages'[t] = messages[t]
            /\ IsPrefix(calls[t]["send"].message, newMessage'[t])
       /\ AlertDismissed(t) =>
            /\ ~sending'[t]
            /\ newMessage'[t] = newMessage[t]
            /\ file'[t] = file[t]
            /\ messages'[t] = messages[t]
            /\ IsPrefix(calls[t]["send"].message, newMessage'[t])
            /\ file'[t] = calls[t]["send"].upload =>
                 CanSend(newMessage'[t], file'[t], sending'[t])]_vars

\* A send of the mounted panel has failed: the alert is shown, the text and
\* the attachment that were sent are still in the compose state and the
\* message list is empty, as is the conversation.
C19_Witness ==
  \E t \in PanelTabs :
    /\ panel[t] # None
    /\ calls[t]["send"].stage = "alert"
    /\ calls[t]["send"].live
    /\ calls[t]["send"].message = <<"x", "x">>
    /\ calls[t]["send"].upload
    /\ newMessage[t] = <<"x", "x">>
    /\ file[t]
    /\ sending[t]
    /\ messages[t] = <<>>
    /\ msgs[panel[t]] = <<>>

\* The content a send carried is empty: no text and no attachment.
EmptyContent(c) == c.message = <<>> /\ ~c.upload

\* C20: a send with empty text and no attachment fails, with
\* ValidationError when the caller is one of the two parties, and creates
\* no message; and a chat panel issues a send request only with a text
\* that is more than blanks or with a file selected.
C20_EmptySendRejected ==
  /\ [](\A t \in Tabs : \A op \in {"send", "post"} :
          (calls[t][op].stage # "idle" /\ EmptyContent(calls[t][op])) =>
            /\ ~calls[t][op].ok
            /\ calls[t][op].data = <<>>
            /\ calls[t][op].err \in {"ValidationError", "ForbiddenError"}
            /\ calls[t][op].role \in Roles => calls[t][op].err = "ValidationError")
  /\ [][\A t \in Tabs : \A op \in {"send", "post"} :
          (/\ calls[t][op].stage = "idle"
           /\ calls'[t][op].stage = "resp"
           /\ EmptyContent(calls'[t][op])) => msgs' = msgs]_vars
  /\ [][\A t \in PanelTabs :
          (calls[t]["send"].stage = "idle" /\ calls'[t]["send"].stage = "resp") =>
            /\ Trim(newMessage[t]) # <<>> \/ file[t]
            /\ calls'[t]["send"].message = newMessage[t]
            /\ calls'[t]["send"].upload = file[t]]_vars

\* An empty send issued through the API was rejected with ValidationError
\* while a mounted panel holds a text of blanks and no file and sends
\* nothing.
C20_Witness ==
  \E t \in ApiTabs, p \in PanelTabs :
    /\ calls[t]["post"].stage = "resp"
    /\ EmptyContent(calls[t]["post"])
    /\ calls[t]["post"].err = "ValidationError"
    /\ panel[p] # None
    /\ newMessage[p] = <<" ", " ">>
    /\ ~file[p]
    /\ ~sending[p]
    /\ calls[p]["send"].stage = "idle"
    /\ msgs[panel[p]] = <<>>

(* ---------------------- properties: opening a session ------------------ *)

\* The session call of tab t is answered in this step, with a failure.
SessionFails(t, op) ==
  /\ calls[t][op].stage = "idle"
  /\ calls'[t][op].stage = "resp"
  /\ ~calls'[t][op].ok

\* The failed session call of tab t returns to its caller in this step.
SessionFailureReturns(t, op) ==
  /\ calls[t][op].stage = "resp"
  /\ ~calls[t][op].ok
  /\ calls'[t][op].stage = "idle"

\* C21: getSession for a request id that no request has fails with
\* NotFoundError and returns no messages, getSession of an account that is
\* neither the request's farmer nor its expert fails with ForbiddenError
\* and returns no messages, and neither the failing call nor what its
\* caller does when the failure returns changes a message list or a cursor.
C21_SessionErrors ==
  /\ [](\A t \in Tabs :
          LET c == calls[t]["get"] IN
          c.stage = "resp" =>
            /\ c.req \notin Requests =>
                 ~c.ok /\ c.err = "NotFoundError" /\ c.data = <<>>
            /\ (c.req \in Requests /\ c.caller \notin Parties(c.req)) =>
                 ~c.ok /\ c.err = "ForbiddenError" /\ c.data = <<>>)
  /\ [][\A t \in Tabs : \A op \in {"get", "session"} :
          (SessionFails(t, op) \/ SessionFailureReturns(t, op)) =>
            msgs' = msgs /\ cursor' = cursor]_vars

\* With a message in the conversation and a cursor on it, one caller has
\* NotFoundError for the unknown request id and another has ForbiddenError
\* for a conversation the account is no party to.
C21_Witness ==
  \E t, u \in Tabs, r \in Requests :
    /\ calls[t]["get"].stage = "resp"
    /\ calls[t]["get"].req = "R_999"
    /\ calls[t]["get"].err = "NotFoundError"
    /\ calls[u]["get"].stage = "resp"
    /\ calls[u]["get"].req = r
    /\ calls[u]["get"].caller = "stranger"
    /\ calls[u]["get"].err = "ForbiddenError"
    /\ msgs[r] # <<>>
    /\ cursor[r]["expert"] > 0

(* ------------------ properties: the two conversations ------------------ *)

\* This step changes something of request r: its messages, a cursor on it,
\* or the badge or the baseline a page keeps for it.
RequestChanges(r) ==
  \/ msgs'[r] # msgs[r]
  \/ cursor'[r] # cursor[r]
  \/ \E t \in Tabs : unreadCounts'[t][r] # unreadCounts[t][r]
  \/ \E t \in Tabs : lastMessageCounts'[t][r] # lastMessageCounts[t][r]

\* This step issues or returns a call of tab t for request r.
CallStepFor(t, op, r) ==
  /\ calls'[t][op].stage # calls[t][op].stage
  /\ IF calls[t][op].stage = "idle" THEN calls'[t][op].req = r ELSE calls[t][op].req = r

\* C22: a step that issues or returns a call for one request (a send, a
\* mark-read, a poll and the notification it raises) changes neither the
\* messages nor the cursors nor a page's badge or baseline of any other
\* request, and no step of a page that stays rendered changes them for two
\* requests at once.
C22_NoCrossRequestInterference ==
  [][/\ \A t \in Tabs : \A op \in Ops : \A r \in Requests :
          CallStepFor(t, op, r) => \A q \in Requests \ {r} : ~RequestChanges(q)
     /\ mounted' = mounted =>
          \A r \in Requests : \A q \in Requests \ {r} :
            ~(RequestChanges(r) /\ RequestChanges(q))]_vars

\* The page shows a badge for the second conversation, which has a
\* message, while the chat of the first is open, has a message, has been
\* marked read and its panel's poll has just notified.
C22_Witness ==
  \E t \in PageTabs :
    /\ panel[t] = "R1"
    /\ notified[t] = "notify"
    /\ msgs["R1"] # <<>>
    /\ msgs["R2"] # <<>>
    /\ cursor["R1"][PageRole(PageOf(t))] > 0
    /\ cursor["R2"][PageRole(PageOf(t))] = 0
    /\ unreadCounts[t]["R2"] = 1

(* ------------------- properties: the dashboard's badge ----------------- *)

\* A poll tick of the page of tab t asks for the unread count of request r
\* in this step.
TickAsksFor(t, r) ==
  /\ calls[t]["unread"].stage = "idle"
  /\ calls'[t]["unread"].stage = "resp"
  /\ calls'[t]["unread"].req = r

\* C23: a poll tick of a page skips the conversation that is open on it: it
\* does not ask for its unread count, so that it has nothing to write to
\* the conversation's badge.
C23_TickSkipsOpenChat ==
  [][\A t \in PageTabs : \A r \in PageRequests :
       openChatId[t] = r => ~TickAsksFor(t, r)]_vars

\* The baseline sync of tab t returns with the message list.
SyncApplies(t) ==
  /\ calls[t]["sync"].stage = "resp"
  /\ calls'[t]["sync"].stage = "idle"
  /\ calls[t]["sync"].ok
  /\ mounted[t]

\* C24: on the expert dashboard the baseline sync of a tick whose unread
\* count was 0 leaves as baseline the number of the farmer's messages in
\* the list it fetched, and a later tick that falls back shows the number
\* of the farmer's messages that arrived since the baseline the dashboard
\* holds was taken: 0 when there are none.
C24_BaselineThenFallback ==
  [][\A t \in PageTabs :
       PageOf(t) = "expert" =>
         /\ SyncApplies(t) =>
              lastMessageCounts'[t][calls[t]["sync"].req] =
                CounterpartCount(calls[t]["sync"].data, "expert")
         /\ LET r == calls[t]["fallback"].req
                current == CounterpartCount(calls[t]["fallback"].data, "expert") IN
            (FallbackApplies(t) /\ mounted[t] /\ lastMessageCounts[t][r] <= current) =>
              unreadCounts'[t][r] = current - lastMessageCounts[t][r]]_vars

(* -------------------- properties: the panel's list --------------------- *)

\* No two entries of the list have the same message id.
DistinctIds(list) ==
  \A i, j \in DOMAIN list : list[i].id = list[j].id => i = j

\* C25: the message list of a chat panel never holds two entries with the
\* same message id.
C25_NoDuplicateMessage ==
  \A t \in PanelTabs : DistinctIds(messages[t])

\* C26: while a chat panel stays mounted, no update of its message list
\* removes a message the list held.
C26_DisplayedMessageStays ==
  [][\A t \in PanelTabs :
       (panel[t] # None /\ panel'[t] = panel[t]) =>
         Ids(messages[t]) \subseteq Ids(messages'[t])]_vars

(* ------------------ properties: the badge after a close ---------------- *)

\* The conversation r is closed on the dashboard of tab t, the markChatRead
\* of its handleCloseChat was the last mark-read and succeeded, and no
\* message of the farmer has arrived since.
CloseAcked(t, r) ==
  /\ PageOf(t) = "expert"
  /\ mounted[t]
  /\ panel[t] = None
  /\ calls[t]["openmark"].stage = "idle"
  /\ markState.tab = t
  /\ markState.phase = "acked"
  /\ markState.req = r
  /\ markState.since = 0

\* C27: after the expert has closed a conversation and the final
\* markChatRead has succeeded, the answer of a poll tick's unread query does
\* not take the conversation's badge away from 0 as long as no message of
\* the farmer arrives.
C27_BadgeStaysZeroAfterClose ==
  [][\A t \in PageTabs : \A r \in PageRequests :
       (/\ CloseAcked(t, r)
        /\ unreadCounts[t][r] = 0
        /\ calls[t]["unread"].stage = "resp"
        /\ calls'[t]["unread"].stage = "idle")
         => unreadCounts'[t][r] = 0]_vars

(* --------------- properties: the badge from tick to tick --------------- *)

\* A poll tick of the page of tab t applies an answer for request r in this
\* step: the unread count or the fallback's request list has returned.
TickApplies(t, r) ==
  \E op \in {"unread", "fallback"} :
    /\ calls[t][op].stage = "resp"
    /\ calls[t][op].req = r
    /\ calls[t][op].ok
    /\ calls'[t][op].stage = "idle"

\* C28: on the expert dashboard, while a conversation stays closed and no
\* mark-read for it is under way, an answer that a poll tick applies (the
\* unread count or the fallback's delta) does not lower the conversation's
\* badge.
C28_BadgeNeverDecreases ==
  [][\A t \in PageTabs : \A r \in PageRequests :
       (/\ PageOf(t) = "expert"
        /\ mounted[t]
        /\ panel[t] = None
        /\ panel'[t] = None
        /\ \A op \in {"openmark", "closemark", "readmark"} :
             calls[t][op].stage = "idle"
        /\ TickApplies(t, r))
         => unreadCounts'[t][r] >= unreadCounts[t][r]]_vars

(* ---------------- properties: the badge in a quiet period -------------- *)

\* The conversation r is closed on the page of tab t and every request of
\* the page that the backend has answered was answered with success.
Quiet(t, r) ==
  /\ mounted[t]
  /\ panel[t] = None
  /\ \A op \in Ops : calls[t][op].stage = "resp" => calls[t][op].ok

\* The badge of r on the page of tab t shows the server's unread count for
\* the role of the page.
BadgeIsServerCount(t, r) ==
  unreadCounts[t][r] = UnreadCount(msgs, cursor, r, PageRole(PageOf(t)))

\* C29: if from some point on the backend answers every request, no new
\* message is sent, the conversation is closed and the browser's logins no
\* longer change, then the badge of the conversation on the page, the
\* farmer's as well as the expert's, becomes the server's unread count for
\* the role of the page and stays it.
C29_BadgeConverges ==
  \A t \in PageTabs : \A r \in PageRequests :
    (<>[]Quiet(t, r) /\ <>[][msgs' = msgs /\ storage' = storage]_vars)
      => <>[]BadgeIsServerCount(t, r)

(* ------------------ properties: one send at a time --------------------- *)

\* The panel of tab t places a send request in this step.
SendPlaced(t) ==
  /\ calls'[t]["send"].stage = "resp"
  /\ calls'[t]["send"].live
  /\ calls'[t]["send"] # calls[t]["send"]

\* A send attempt of the mounted panel of tab t ends in this step: its
\* await has returned with success, or it has failed and the alert of the
\* catch block has been dismissed.
SendEnds(t) ==
  /\ calls[t]["send"].stage # "idle"
  /\ calls[t]["send"].live
  /\ calls'[t]["send"].stage = "idle"

\* C30: a chat panel never has two send requests outstanding: while a send
\* of the panel is outstanding sending is true, a send is only placed when
\* sending is false and none is outstanding, and when a send attempt ends,
\* with success or with failure, sending is false again.
C30_OneSendAtATime ==
  /\ [](\A t \in PanelTabs :
          (calls[t]["send"].stage # "idle" /\ calls[t]["send"].live) => sending[t])
  /\ [][\A t \in PanelTabs :
          /\ SendPlaced(t) => (/\ calls[t]["send"].stage = "idle"
                                /\ ~sending[t]
                                /\ sending'[t])
          /\ SendEnds(t) => ~sending'[t]]_vars

\* A panel whose earlier send has ended has a second send outstanding, and
\* its compose state still holds content that a further submit would send.
C30_Witness ==
  \E t \in PanelTabs :
    /\ panel[t] # None
    /\ messages[t] # <<>>
    /\ calls[t]["send"].stage = "resp"
    /\ calls[t]["send"].live
    /\ sending[t]
    /\ CanSend(newMessage[t], file[t], FALSE)

====
